---------------------------- MODULE Spec2Model ----------------------------
(***************************************************************************)
(* SafeMail (src/js/safemail.js): the client-side phishing detector.       *)
(*                                                                         *)
(* A text is a sequence of lines.  Every line is one of the phrases of     *)
(* KnownLines; the text the code sees is the lines joined by line breaks.  *)
(* A regular expression of the source is modelled by the set of known      *)
(* lines it matches (each regex matches a known line at most once and no   *)
(* match spans a line break), a RegExp object by its lastIndex, counted in *)
(* lines.  Words are sequences of one-character strings.  Confidences are  *)
(* counted in hundredths, probabilities in ten-thousandths.                *)
(***************************************************************************)
EXTENDS Integers, Sequences, FiniteSets, TLC

\* ------------------------------------------------------------- bounds ---
\* Lines of a text typed into the page (Spec).
MaxLines == 3
\* Lines of a text analysed in SpecIdem.
MaxIdemLines == 2
\* Calls of analyzeEmail that SpecIdem tells apart.
MaxCounted == 2
\* Times every known line of SpecRules' text may recur.
MaxRepeat == 2
\* Distinct basis lines in a text of SpecRules whose lines recur.
MaxRecurring == 2
\* Letters of a word's root, suffixes appended to it, and successive calls
\* of stem (SpecStem).
MaxRootLen == 3
MaxSuffixes == 2
MaxStemCalls == 2

\* ------------------------------------------------------------ helpers ---
Last(s) == s[Len(s)]

DropLast(s, n) == SubSeq(s, 1, Len(s) - n)

EndsWith(s, suffix) ==
    /\ Len(s) >= Len(suffix)
    /\ SubSeq(s, Len(s) - Len(suffix) + 1, Len(s)) = suffix

Range(s) == {s[i] : i \in 1..Len(s)}

RECURSIVE Flatten(_)
Flatten(ss) == IF ss = <<>> THEN <<>> ELSE Head(ss) \o Flatten(Tail(ss))

Min(S) == CHOOSE x \in S : \A y \in S : x <= y

\* ------------------------------------------------------------ stemmer ---
ING == <<"i", "n", "g">>
ED == <<"e", "d">>
LY == <<"l", "y">>

\* A slip in the length guard of the "ed" rule.
stemShortEd(word) ==
    IF Len(word) < 4 THEN word
    ELSE IF Len(word) > 5 /\ EndsWith(word, ING) THEN DropLast(word, 3)
    ELSE IF Len(word) > 3 /\ EndsWith(word, ED) THEN DropLast(word, 2)
    ELSE IF Len(word) > 5 /\ EndsWith(word, LY) THEN DropLast(word, 2)
    ELSE word

\* stem(word): the first rule that matches is applied, once.
stem(word) ==
    IF Len(word) < 4 THEN word
    ELSE IF Len(word) > 5 /\ EndsWith(word, ING) THEN DropLast(word, 3)
    ELSE IF Len(word) > 4 /\ EndsWith(word, ED) THEN DropLast(word, 2)
    ELSE IF Len(word) > 5 /\ EndsWith(word, LY) THEN DropLast(word, 2)
    ELSE word

VARIABLES token, stems

Letters == {"a", "d", "e", "g", "n", "y"}
Suffixes == {ING, ED, LY}

RootsUpTo(n) == UNION {[1..k -> Letters] : k \in 0..n}
SuffixRuns(n) == UNION {[1..k -> Suffixes] : k \in 0..n}

\* The words stem is tried on: a root followed by stacked suffixes.
Words == {r \o Flatten(ss) : r \in RootsUpTo(MaxRootLen), ss \in SuffixRuns(MaxSuffixes)}

StemInit ==
    /\ token \in Words
    /\ stems = <<>>

\* One more call of stem, on the word or on what the last call returned.
StemCall ==
    /\ Len(stems) < MaxStemCalls
    /\ stems' = Append(stems, stem(IF stems = <<>> THEN token ELSE Last(stems)))
    /\ UNCHANGED token

\* ---------------------------------------------------------- JS values ---
\* A JavaScript value, tagged with its type.  Strings are sequences of
\* one-character strings; an object is a function from its own property
\* names to values.
Undefined == [t |-> "undefined"]
Null == [t |-> "null"]
NaN == [t |-> "NaN"]
Num(n) == [t |-> "number", v |-> n]
Str(s) == [t |-> "string", v |-> s]
Arr(items) == [t |-> "array", items |-> items]
Obj(fields) == [t |-> "object", fields |-> fields]

\* !v is ~ToBoolean(v).
ToBoolean(v) ==
    CASE v.t \in {"undefined", "null", "NaN"} -> FALSE
      [] v.t = "number" -> v.v # 0
      [] v.t = "string" -> v.v # <<>>
      [] OTHER -> TRUE

\* v.name for a value that is neither null nor undefined.
Get(v, name) ==
    IF v.t = "object" /\ name \in DOMAIN v.fields THEN v.fields[name] ELSE Undefined

DigitValue(c) ==
    CASE c = "0" -> 0 [] c = "1" -> 1 [] c = "2" -> 2 [] c = "3" -> 3 [] c = "4" -> 4
      [] c = "5" -> 5 [] c = "6" -> 6 [] c = "7" -> 7 [] c = "8" -> 8 [] c = "9" -> 9

Digits == {"0", "1", "2", "3", "4", "5", "6", "7", "8", "9"}

RECURSIVE DecimalValue(_)
DecimalValue(s) ==
    IF s = <<>> THEN 0 ELSE 10 * DecimalValue(DropLast(s, 1)) + DigitValue(Last(s))

\* Number(v) for the values a parsed response body holds (a string is a
\* number when it is empty or all digits).
Number(v) ==
    CASE v.t = "number" -> v
      [] v.t = "null" -> Num(0)
      [] v.t = "string" ->
            IF Range(v.v) \subseteq Digits THEN Num(DecimalValue(v.v)) ELSE NaN
      [] v.t = "array" /\ v.items = <<>> -> Num(0)
      [] OTHER -> NaN

Add(a, b) == IF a.t = "NaN" \/ b.t = "NaN" THEN NaN ELSE Num(a.v + b.v)
Mul(a, b) == IF a.t = "NaN" \/ b.t = "NaN" THEN NaN ELSE Num(a.v * b.v)

\* v.length and v[j] (j counted from 1) of a truthy value.
LengthOf(v) ==
    CASE v.t = "array" -> Num(Len(v.items))
      [] v.t = "string" -> Num(Len(v.v))
      [] OTHER -> Undefined

At(v, j) ==
    CASE v.t = "array" /\ j <= Len(v.items) -> v.items[j]
      [] v.t = "string" /\ j <= Len(v.v) -> Str(<<v.v[j]>>)
      [] OTHER -> Undefined

\* --------------------------------------------------------------- text ---
\* The phrases a line of a text is drawn from: one per signal group of the
\* Rule Engine, and the lines typed in a session.
BasisLines ==
    <<"deadline", "account suspended", "support team", "password", "click here",
      "wire transfer", "enable macros", "setup.scr", "example.xyz", "http://1.2.3.4",
      "tinyurl", "http://a.io http://b.io http://c.io http://d.io",
      "failure to respond will result", "winner", "informational purposes only",
      "you may ignore", "chase.com">>

SessionLines ==
    {"account suspended", "setup.scr", "Invoice.EXE", "no action required",
     "if this was you", "chase.com", "  "}

IdemLines == {"account suspended", "no action required"}

\* A line no pattern matches.
NeutralLine == "hello"

KnownLines ==
    Range(BasisLines) \cup SessionLines
        \cup {NeutralLine, "invoice.exe", "verify your account immediately"}

\* String.prototype.toLowerCase, line by line.
LowerLine(line) == IF line = "Invoice.EXE" THEN "invoice.exe" ELSE line

toLowerCase(text) == [i \in DOMAIN text |-> LowerLine(text[i])]

IsBlank(line) == line = "  "

\* String.prototype.trim: white space is dropped at both ends.
RECURSIVE trimStart(_)
trimStart(text) ==
    IF text # <<>> /\ IsBlank(Head(text)) THEN trimStart(Tail(text)) ELSE text

RECURSIVE trimEnd(_)
trimEnd(text) ==
    IF text # <<>> /\ IsBlank(Last(text)) THEN trimEnd(DropLast(text, 1)) ELSE text

trim(text) == trimEnd(trimStart(text))

\* The word tokens of a lower-cased line: every character that is neither
\* a word character nor white space separates words.
WordsOf(line) ==
    CASE line = "  " -> <<>>
      [] line = "hello" ->
            <<<<"h", "e", "l", "l", "o">>>>
      [] line = "deadline" ->
            <<<<"d", "e", "a", "d", "l", "i", "n", "e">>>>
      [] line = "account suspended" ->
            <<<<"a", "c", "c", "o", "u", "n", "t">>, <<"s", "u", "s", "p", "e", "n", "d", "e", "d">>>>
      [] line = "support team" ->
            <<<<"s", "u", "p", "p", "o", "r", "t">>, <<"t", "e", "a", "m">>>>
      [] line = "password" ->
            <<<<"p", "a", "s", "s", "w", "o", "r", "d">>>>
      [] line = "click here" ->
            <<<<"c", "l", "i", "c", "k">>, <<"h", "e", "r", "e">>>>
      [] line = "wire transfer" ->
            <<<<"w", "i", "r", "e">>, <<"t", "r", "a", "n", "s", "f", "e", "r">>>>
      [] line = "enable macros" ->
            <<<<"e", "n", "a", "b", "l", "e">>, <<"m", "a", "c", "r", "o", "s">>>>
      [] line = "setup.scr" ->
            <<<<"s", "e", "t", "u", "p">>, <<"s", "c", "r">>>>
      [] line = "example.xyz" ->
            <<<<"e", "x", "a", "m", "p", "l", "e">>, <<"x", "y", "z">>>>
      [] line = "http://1.2.3.4" ->
            <<<<"h", "t", "t", "p">>, <<"1">>, <<"2">>, <<"3">>, <<"4">>>>
      [] line = "tinyurl" ->
            <<<<"t", "i", "n", "y", "u", "r", "l">>>>
      [] line = "http://a.io http://b.io http://c.io http://d.io" ->
            <<<<"h", "t", "t", "p">>, <<"a">>, <<"i", "o">>, <<"h", "t", "t", "p">>, <<"b">>, <<"i", "o">>, <<"h", "t", "t", "p">>, <<"c">>, <<"i", "o">>, <<"h", "t", "t", "p">>, <<"d">>, <<"i", "o">>>>
      [] line = "failure to respond will result" ->
            <<<<"f", "a", "i", "l", "u", "r", "e">>, <<"t", "o">>, <<"r", "e", "s", "p", "o", "n", "d">>, <<"w", "i", "l", "l">>, <<"r", "e", "s", "u", "l", "t">>>>
      [] line = "winner" ->
            <<<<"w", "i", "n", "n", "e", "r">>>>
      [] line = "informational purposes only" ->
            <<<<"i", "n", "f", "o", "r", "m", "a", "t", "i", "o", "n", "a", "l">>, <<"p", "u", "r", "p", "o", "s", "e", "s">>, <<"o", "n", "l", "y">>>>
      [] line = "you may ignore" ->
            <<<<"y", "o", "u">>, <<"m", "a", "y">>, <<"i", "g", "n", "o", "r", "e">>>>
      [] line = "chase.com" ->
            <<<<"c", "h", "a", "s", "e">>, <<"c", "o", "m">>>>
      [] line = "invoice.exe" ->
            <<<<"i", "n", "v", "o", "i", "c", "e">>, <<"e", "x", "e">>>>
      [] line = "no action required" ->
            <<<<"n", "o">>, <<"a", "c", "t", "i", "o", "n">>, <<"r", "e", "q", "u", "i", "r", "e", "d">>>>
      [] line = "if this was you" ->
            <<<<"i", "f">>, <<"t", "h", "i", "s">>, <<"w", "a", "s">>, <<"y", "o", "u">>>>
      [] line = "verify your account immediately" ->
            <<<<"v", "e", "r", "i", "f", "y">>, <<"y", "o", "u", "r">>, <<"a", "c", "c", "o", "u", "n", "t">>, <<"i", "m", "m", "e", "d", "i", "a", "t", "e", "l", "y">>>>

tokenize(text) == Flatten([i \in DOMAIN text |-> WordsOf(LowerLine(text[i]))])

\* ------------------------------------------------------------ regexes ---
\* The known lines each regular expression of the source matches.
Matches(re) ==
    CASE re = "URGENCY" ->
            {"deadline", "no action required",
             "verify your account immediately"}
      [] re = "THREATS" ->
            {"account suspended"}
      [] re = "AUTHORITY" ->
            {"support team"}
      [] re = "CREDENTIALS" ->
            {"password", "verify your account immediately"}
      [] re = "CTA" ->
            {"click here"}
      [] re = "FINANCIAL" ->
            {"wire transfer"}
      [] re = "ATTACHMENT" ->
            {"enable macros"}
      [] re = "BAD_EXT" ->
            {"Invoice.EXE", "invoice.exe", "setup.scr"}
      [] re = "EXE" ->
            {"Invoice.EXE", "invoice.exe"}
      [] re = "SUSPICIOUS_TLD" ->
            {"example.xyz"}
      [] re = "IP_IN_URL" ->
            {"http://1.2.3.4"}
      [] re = "SHORTENED" ->
            {"tinyurl"}
      [] re = "COMPOSITE" ->
            {"failure to respond will result",
             "verify your account immediately"}
      [] re = "REWARD" ->
            {"winner"}
      [] re = "STRONG_LEGIT" ->
            {"informational purposes only", "no action required"}
      [] re = "LEGIT_PHRASES" ->
            {"if this was you", "you may ignore"}
      [] re = "CANONICAL_DOMAIN" ->
            {"chase.com"}
      [] re = "goldPhrases" ->
            {"failure to respond will result",
             "verify your account immediately"}
      [] re = "strongLegit" ->
            {"informational purposes only", "no action required"}
      [] re = "legitPhrase" ->
            {"if this was you", "you may ignore"}
      [] re = "canonicalDomain" ->
            {"chase.com"}

\* The regular expressions written with the g flag: test() starts at the
\* object's lastIndex and leaves the end of the match (or 0) there.
GlobalRegexes ==
    {"URGENCY", "THREATS", "AUTHORITY", "CREDENTIALS", "CTA", "FINANCIAL", "ATTACHMENT",
     "COMPOSITE", "REWARD", "STRONG_LEGIT", "LEGIT_PHRASES", "goldPhrases", "strongLegit",
     "legitPhrase"}

\* The number of matches of LINK_PATTERN in a line.
LinksIn(line) ==
    CASE line = "http://1.2.3.4" -> 1
      [] line = "http://a.io http://b.io http://c.io http://d.io" -> 4
      [] OTHER -> 0

RECURSIVE CountLinks(_)
CountLinks(text) ==
    IF text = <<>> THEN 0 ELSE LinksIn(Head(text)) + CountLinks(Tail(text))

\* RegExp.prototype.test on str, for an object whose lastIndex is from: a
\* regex with the g flag searches from lastIndex on, any other from the start.
test(re, str, from) ==
    LET start == IF re \in GlobalRegexes THEN from ELSE 0
        matched == Matches(re)
    IN  \E k \in DOMAIN str : k > start /\ str[k] \in matched

\* The lastIndex test leaves in the object: the end of the match found, or
\* 0 when there is none (and always 0 without the g flag).
lastIndexAfter(re, str, from) ==
    LET matched == Matches(re)
        hits == {k \in DOMAIN str : k > from /\ str[k] \in matched}
    IN  IF re \in GlobalRegexes /\ hits # {} THEN Min(hits) ELSE 0

\* One RegExp object kept for all calls instead of one per evaluation.
RegExpHoisted(re, held) == held

\* A regex literal in a function body: every evaluation makes a new object,
\* whose lastIndex is 0 whatever the object of an earlier call held.
RegExpLiteral(re, held) == 0

\* ------------------------------------------------------------ results ---
\* An explanation: which of the source's templates it is, and the reason
\* strings joined into it.
Explanation(form, reasons, legitReasons) ==
    [form |-> form, reasons |-> reasons, legitReasons |-> legitReasons]

\* { prediction, confidence, explanation }, the confidence in hundredths.
Result(prediction, confidence, explanation) ==
    [prediction |-> prediction, confidence |-> confidence, explanation |-> explanation]

\* Stands where a function returned no result object.
NoResult == Result("none", 0, Explanation("none", <<>>, <<>>))

\* ------------------------------------------------------- Model Scorer ---
\* 10000 * sigmoid(x), rounded, for an integer x.
SigmoidTable == <<7311, 8808, 9526, 9820, 9933, 9975, 9991, 9997, 9999>>

sigmoid(x) ==
    IF x.t = "NaN" THEN 5000
    ELSE IF x.v >= 0
         THEN (IF x.v = 0 THEN 5000
               ELSE IF x.v > Len(SigmoidTable) THEN 10000 ELSE SigmoidTable[x.v])
         ELSE (IF -x.v > Len(SigmoidTable) THEN 0 ELSE 10000 - SigmoidTable[-x.v])

\* Math.round(confidence * 100) / 100, from ten-thousandths to hundredths.
RoundToHundredths(c) == (c + 50) \div 100

\* The guard reads model.vocab before it has looked at model.
GuardWithoutNullCheck(m) ==
    IF m.t \in {"null", "undefined"} THEN [declines |-> FALSE, read |-> {"vocab"}]
    ELSE IF ~ToBoolean(Get(m, "vocab")) THEN [declines |-> TRUE, read |-> {"vocab"}]
    ELSE [declines |-> ~ToBoolean(Get(m, "coef")), read |-> {"vocab", "coef"}]

\* if (!model || !model.vocab || !model.coef) return null: whether the
\* scorer declines, and the properties of model the guard has read.
ModelGuard(m) ==
    IF ~ToBoolean(m) THEN [declines |-> TRUE, read |-> {}]
    ELSE IF ~ToBoolean(Get(m, "vocab")) THEN [declines |-> TRUE, read |-> {"vocab"}]
    ELSE [declines |-> ~ToBoolean(Get(m, "coef")), read |-> {"vocab", "coef"}]

\* vocab.indexOf(w), counted from 1; 0 for the source's -1.
indexOf(vocab, w) ==
    LET hits == {i \in 1..Len(vocab.items) :
                    vocab.items[i].t = "string" /\ vocab.items[i].v = w}
    IN  IF hits = {} THEN 0 ELSE Min(hits)

\* The vocabulary index a word counts for: the word itself, else its stem.
Lookup(vocab, w) ==
    LET idx == indexOf(vocab, w)
    IN  IF idx # 0 THEN idx
        ELSE IF stem(w) # w THEN indexOf(vocab, stem(w)) ELSE 0

\* counts after the loop over the words.
CountWords(vocab, words) ==
    [i \in 1..Len(vocab.items) |->
        Cardinality({k \in 1..Len(words) : Lookup(vocab, words[k]) = i})]

\* for (j = 0; j < model.coef.length; j++) score += Number(coef[j]) * counts[j]
RECURSIVE ScoreLoop(_, _, _, _)
ScoreLoop(score, coef, counts, j) ==
    LET length == LengthOf(coef)
    IN  IF length.t # "number" \/ j > length.v THEN score
        ELSE ScoreLoop(Add(score, Mul(Number(At(coef, j)),
                                      IF j \in DOMAIN counts THEN Num(counts[j]) ELSE NaN)),
                       coef, counts, j + 1)

\* predictWithModel(text): ret is "null", "threw" or "result"; read is the
\* set of properties of model the call has read.
predictWithModel(text, m) ==
    LET guard == ModelGuard(m)
        vocab == Get(m, "vocab")
        coef == Get(m, "coef")
        intercept == Number(Get(m, "intercept"))
        counts == CountWords(vocab, tokenize(text))
        score == ScoreLoop(intercept, coef, counts, 1)
        probPhishing == sigmoid(score)
        prediction == IF probPhishing >= 5000 THEN "Phishing" ELSE "Safe"
        confidence == IF prediction = "Phishing" THEN probPhishing ELSE 10000 - probPhishing
        clamped == IF confidence < 0 THEN 0 ELSE IF confidence > 10000 THEN 10000 ELSE confidence
    IN  IF m.t \in {"null", "undefined"} /\ guard.read # {}
          \* reading a property of null is a TypeError
          THEN [ret |-> "threw", out |-> NoResult, read |-> guard.read]
        ELSE IF guard.declines
          THEN [ret |-> "null", out |-> NoResult, read |-> guard.read]
        ELSE IF intercept.t = "NaN"
          THEN [ret |-> "null", out |-> NoResult, read |-> guard.read \cup {"intercept"}]
        ELSE IF vocab.t # "array"
          THEN [ret |-> "threw", out |-> NoResult, read |-> guard.read \cup {"intercept"}]
        ELSE IF score.t = "NaN"
          THEN [ret |-> "null", out |-> NoResult, read |-> guard.read \cup {"intercept"}]
        ELSE [ret |-> "result",
              out |-> Result(prediction, RoundToHundredths(clamped),
                             Explanation(IF prediction = "Phishing" THEN "model-phishing"
                                         ELSE "model-safe", <<>>, <<>>)),
              read |-> guard.read \cup {"intercept"}]

\* -------------------------------------------------------- Rule Engine ---
\* The phishing signal groups in the order of the source: the regex, the
\* string it is tested on, the weight and the reason.
Group(re, on, weight, reason) == [re |-> re, on |-> on, weight |-> weight, reason |-> reason]

PhishingGroups ==
    <<Group("URGENCY", "lower", 20, "urgency or time pressure"),
      Group("THREATS", "lower", 25, "threats or consequences"),
      Group("AUTHORITY", "lower", 15, "authority or impersonation language"),
      Group("CREDENTIALS", "lower", 22, "credential or verification request"),
      Group("CTA", "lower", 22, "call-to-action (click/open/verify)"),
      Group("FINANCIAL", "lower", 20, "financial or payment language"),
      Group("ATTACHMENT", "lower", 18, "attachment or file instruction"),
      Group("BAD_EXT", "lower", 35, "suspicious file extension (e.g. .exe)"),
      Group("SUSPICIOUS_TLD", "text", 28, "suspicious domain or TLD"),
      Group("IP_IN_URL", "text", 25, "link to an IP address"),
      Group("SHORTENED", "text", 12, "shortened URL"),
      Group("LINK_PATTERN", "text", 10, "multiple links"),
      Group("COMPOSITE", "lower", 25, "high-risk phrase combination"),
      Group("REWARD", "lower", 18, "prize or reward wording")>>

LegitGroups ==
    <<Group("STRONG_LEGIT", "lower", 28, "no action required / informational"),
      Group("LEGIT_PHRASES", "lower", 14, "informational tone, optional action"),
      Group("CANONICAL_DOMAIN", "text", 18, "canonical or trusted domain in link")>>

OverrideRegexes == {"goldPhrases", "strongLegit", "legitPhrase", "canonicalDomain"}

AllRegexes ==
    {g.re : g \in Range(PhishingGroups) \cup Range(LegitGroups)} \cup OverrideRegexes \cup {"EXE"}

\* The regexes analyzeWithRules tests with the g flag, all on lower.
RuleRegexes == GlobalRegexes \ OverrideRegexes

\* lastIndex of every RegExp object before any call has made one.
NoneHeld == [re \in AllRegexes |-> 0]

\* The test of a group's regex literal on the string it is applied to.
Tested(g, text, lower, held) ==
    test(g.re, IF g.on = "lower" THEN lower ELSE text, RegExpLiteral(g.re, held[g.re]))

\* The condition of a group's if statement.
Fires(g, text, lower, held) ==
    CASE g.re = "BAD_EXT" -> Tested(g, text, lower, held) \/ test("EXE", text, 0)
      [] g.re = "LINK_PATTERN" -> CountLinks(text) > 3
      [] OTHER -> Tested(g, text, lower, held)

\* The weight is added for every line the pattern matches.
ContributionPerMatch(g, text, lower, held) ==
    LET n == IF g.re = "LINK_PATTERN" THEN 1
             ELSE Cardinality({k \in DOMAIN lower : lower[k] \in Matches(g.re)})
    IN  IF Fires(g, text, lower, held) THEN g.weight * n ELSE 0

\* What one if statement adds to the running total.
Contribution(g, text, lower, held) == IF Fires(g, text, lower, held) THEN g.weight ELSE 0

\* What each group of a catalog adds, in the order of the source.
Contributions(groups, text, lower, held) ==
    [i \in DOMAIN groups |-> Contribution(groups[i], text, lower, held)]

\* score after the if statements whose additions are added.
RECURSIVE Total(_, _)
Total(added, n) == IF n = 0 THEN 0 ELSE Total(added, n - 1) + added[n]

\* reasons after them: an if statement that adds its weight pushes its reason.
Reasons(groups, added) ==
    LET fired == SelectSeq([i \in DOMAIN groups |-> i], LAMBDA i : added[i] # 0)
    IN  [k \in DOMAIN fired |-> groups[fired[k]].reason]

\* score = Math.max(0, score - legitDeduction); score = Math.min(100, score)
Clamp(score, legitDeduction) ==
    LET floored == IF score - legitDeduction < 0 THEN 0 ELSE score - legitDeduction
    IN  IF floored > 100 THEN 100 ELSE floored

\* The boundary score itself still counts as Safe.
VerdictAboveThreshold(score) ==
    IF score > 52 THEN [prediction |-> "Phishing", confidence |-> score]
    ELSE [prediction |-> "Safe", confidence |-> 100 - score]

\* The digits of the threshold are transposed.
VerdictTransposedThreshold(score) ==
    IF score >= 25 THEN [prediction |-> "Phishing", confidence |-> score]
    ELSE [prediction |-> "Safe", confidence |-> 100 - score]

\* confidence = score / 100; prediction = score >= 52 ? 'Phishing' : 'Safe';
\* if Safe, confidence = 1 - confidence.  Math.round(confidence * 100) / 100
\* is exact on hundredths.
Verdict(score) ==
    IF score >= 52 THEN [prediction |-> "Phishing", confidence |-> score]
    ELSE [prediction |-> "Safe", confidence |-> 100 - score]

\* analyzeWithRules(text): the score after the clamps and the result.
analyzeWithRules(text, held) ==
    LET lower == toLowerCase(text)
        added == Contributions(PhishingGroups, text, lower, held)
        deducted == Contributions(LegitGroups, text, lower, held)
        reasons == Reasons(PhishingGroups, added)
        legitReasons == Reasons(LegitGroups, deducted)
        score == Clamp(Total(added, Len(added)), Total(deducted, Len(deducted)))
        verdict == Verdict(score)
        form == IF reasons = <<>> /\ legitReasons = <<>> THEN "rules-none"
                ELSE IF verdict.prediction = "Safe" /\ legitReasons # <<>> THEN "rules-legit"
                ELSE IF verdict.prediction = "Phishing" THEN "rules-signals-phishing"
                ELSE "rules-signals-safe"
    IN  [score |-> score,
         out |-> Result(verdict.prediction, verdict.confidence,
                        IF form = "rules-none" THEN Explanation(form, <<>>, <<>>)
                        ELSE IF form = "rules-legit"
                             THEN Explanation(form, reasons, legitReasons)
                             ELSE Explanation(form, reasons, <<>>))]

\* The lastIndex the RegExp objects of analyzeWithRules are left with.
HeldAfterRules(text, held) ==
    LET lower == toLowerCase(text)
    IN  [re \in AllRegexes |->
            IF re \in RuleRegexes
            THEN lastIndexAfter(re, lower, RegExpLiteral(re, held[re]))
            ELSE held[re]]

\* ----------------------------------------------------------- override ---
\* hasGoldPhishSignals(text): /\.exe\b/i on the text, then the composite
\* phrases on the lower-cased text.
hasGoldPhishSignals(text, held) ==
    \/ test("EXE", text, 0)
    \/ test("goldPhrases", toLowerCase(text), RegExpLiteral("goldPhrases", held["goldPhrases"]))

\* The gold signals are not consulted.
hasLegitIgnoringGold(text, held) ==
    LET lower == toLowerCase(text)
        strongLegit == test("strongLegit", lower,
                            RegExpLiteral("strongLegit", held["strongLegit"]))
        legitPhrase == test("legitPhrase", lower,
                            RegExpLiteral("legitPhrase", held["legitPhrase"]))
        canonicalDomain == test("canonicalDomain", text, 0)
    IN  strongLegit \/ (legitPhrase /\ canonicalDomain)

\* hasLegitDiscriminators(text)
hasLegitDiscriminators(text, held) ==
    LET lower == toLowerCase(text)
        strongLegit == test("strongLegit", lower,
                            RegExpLiteral("strongLegit", held["strongLegit"]))
        legitPhrase == test("legitPhrase", lower,
                            RegExpLiteral("legitPhrase", held["legitPhrase"]))
        canonicalDomain == test("canonicalDomain", text, 0)
    IN  ~hasGoldPhishSignals(text, held) /\ (strongLegit \/ (legitPhrase /\ canonicalDomain))

\* The lastIndex the RegExp objects of hasLegitDiscriminators are left with.
HeldAfterOverrideCheck(text, held) ==
    LET lower == toLowerCase(text)
    IN  [re \in AllRegexes |->
            IF re \in {"strongLegit", "legitPhrase"}
              THEN lastIndexAfter(re, lower, RegExpLiteral(re, held[re]))
            ELSE IF re = "goldPhrases" /\ ~test("EXE", text, 0)
              THEN lastIndexAfter(re, lower, RegExpLiteral(re, held[re]))
            ELSE held[re]]

\* The result the override puts in place of the scorer's.
OverrideResult == Result("Safe", 68, Explanation("override", <<>>, <<>>))

NoTextResult == Result("Safe", 0, Explanation("no-text", <<>>, <<>>))

\* ------------------------------------------------------- analyzeEmail ---
\* What one call of analyzeEmail did: its argument and the model it saw,
\* the scorer whose result was chosen, that result (chosen), whether the
\* call returned or threw, what it returned (result), the properties of
\* model it read, and the lastIndex its RegExp objects were left with; nth
\* is set by the caller.
Call(emailText, m, scorer, ret, chosen, result, read, lastIndex) ==
    [made |-> TRUE, nth |-> 1, emailText |-> emailText, model |-> m, scorer |-> scorer, ret |-> ret,
     chosen |-> chosen, result |-> result, read |-> read, lastIndex |-> lastIndex]

NoCall ==
    [made |-> FALSE, nth |-> 0, emailText |-> <<>>, model |-> Null, scorer |-> "none", ret |-> "none",
     chosen |-> NoResult, result |-> NoResult, read |-> {}, lastIndex |-> NoneHeld]

analyzeEmail(emailText, m, held) ==
    LET text == trim(emailText)
        scored == predictWithModel(text, m)
        rules == analyzeWithRules(text, held)
        scorer == IF scored.ret = "result" THEN "model" ELSE "rules"
        out == IF scored.ret = "result" THEN scored.out ELSE rules.out
        afterScorer == IF scored.ret = "result" THEN held ELSE HeldAfterRules(text, held)
    IN  IF text = <<>>
          THEN Call(emailText, m, "none", "returned", NoResult, NoTextResult, {}, held)
        ELSE IF scored.ret = "threw"
          THEN Call(emailText, m, "none", "threw", NoResult, NoResult, scored.read, held)
        ELSE IF out.prediction = "Phishing"
          THEN Call(emailText, m, scorer, "returned", out,
                    IF hasLegitDiscriminators(text, afterScorer) THEN OverrideResult ELSE out,
                    scored.read, HeldAfterOverrideCheck(text, afterScorer))
        ELSE Call(emailText, m, scorer, "returned", out, out, scored.read, afterScorer)

\* ---------------------------------------------------------- the fetch ---
\* The documents js/safemail-model.json may hold.
GoodBody == "{\"vocab\":[\"suspend\",\"account\",\"chase\"],\"coef\":[2,1,-1],\"intercept\":-1}"
ShortCoefBody == "{\"vocab\":[\"account\",\"suspend\"],\"coef\":[3],\"intercept\":0}"
LongCoefBody == "{\"vocab\":[\"account\"],\"coef\":[1,1],\"intercept\":0}"
NoVocabBody == "{\"coef\":[1],\"intercept\":0}"
NoCoefBody == "{\"vocab\":[\"account\"],\"intercept\":0}"
NoInterceptBody == "{\"vocab\":[\"account\"],\"coef\":[1]}"
TextInterceptBody == "{\"vocab\":[\"account\"],\"coef\":[1],\"intercept\":\"n/a\"}"
TextVocabBody == "{\"vocab\":\"account\",\"coef\":[1],\"intercept\":0}"
NullBody == "null"
CutBody == "{\"vocab\":[\"acc"

Bodies ==
    {GoodBody, ShortCoefBody, LongCoefBody, NoVocabBody, NoCoefBody, NoInterceptBody,
     TextInterceptBody, TextVocabBody, NullBody, CutBody}

W_suspend == <<"s", "u", "s", "p", "e", "n", "d">>
W_account == <<"a", "c", "c", "o", "u", "n", "t">>
W_chase == <<"c", "h", "a", "s", "e">>

\* JSON.parse(body): the value, or ok = FALSE for a SyntaxError.
Parsed(v) == [ok |-> TRUE, value |-> v]

JSONparse(body) ==
    CASE body = GoodBody ->
            Parsed(Obj([vocab |-> Arr(<<Str(W_suspend), Str(W_account), Str(W_chase)>>),
                        coef |-> Arr(<<Num(2), Num(1), Num(-1)>>),
                        intercept |-> Num(-1)]))
      [] body = ShortCoefBody ->
            Parsed(Obj([vocab |-> Arr(<<Str(W_account), Str(W_suspend)>>),
                        coef |-> Arr(<<Num(3)>>), intercept |-> Num(0)]))
      [] body = LongCoefBody ->
            Parsed(Obj([vocab |-> Arr(<<Str(W_account)>>),
                        coef |-> Arr(<<Num(1), Num(1)>>), intercept |-> Num(0)]))
      [] body = NoVocabBody ->
            Parsed(Obj([coef |-> Arr(<<Num(1)>>), intercept |-> Num(0)]))
      [] body = NoCoefBody ->
            Parsed(Obj([vocab |-> Arr(<<Str(W_account)>>), intercept |-> Num(0)]))
      [] body = NoInterceptBody ->
            Parsed(Obj([vocab |-> Arr(<<Str(W_account)>>), coef |-> Arr(<<Num(1)>>)]))
      [] body = TextInterceptBody ->
            Parsed(Obj([vocab |-> Arr(<<Str(W_account)>>), coef |-> Arr(<<Num(1)>>),
                        intercept |-> Str(<<"n", "/", "a">>)]))
      [] body = TextVocabBody ->
            Parsed(Obj([vocab |-> Str(W_account), coef |-> Arr(<<Num(1)>>),
                        intercept |-> Num(0)]))
      [] body = NullBody -> Parsed(Null)
      [] OTHER -> [ok |-> FALSE, value |-> Undefined]

\* What the server answers, or that it cannot be reached.
Response(status, body) == [reachable |-> TRUE, status |-> status, body |-> body]
Unreachable == [reachable |-> FALSE, status |-> 0, body |-> ""]

Servers ==
    {Response(200, b) : b \in Bodies}
        \cup {Response(404, NullBody), Response(500, GoodBody), Unreachable}

\* Every status is taken for a success.
AnyStatus(status) == TRUE

\* xhr.status >= 200 && xhr.status < 300
StatusOk(status) == status >= 200 /\ status < 300

\* -------------------------------------------------------------- state ---
\* page:    "loading" until init has run, then "ready"
\* xhr:     the request of loadModel: "unsent", "pending", "loaded", "failed"
\* server:  what the request will be answered with
\* model:   the variable model of the source
\* assigns: how often an assignment to model has been executed
\* input:   the lines in the text field
\* call:    the latest call of analyzeEmail since the input last changed;
\*          in SpecIdem call.nth counts the calls, up to MaxCounted
\* first:   in SpecIdem, the first call made under the present model
\* ruleCall: in SpecRules, the call of analyzeWithRules on the input
VARIABLES page, xhr, server, model, assigns, input, call, first, ruleCall

vars == <<page, xhr, server, model, assigns, input, call, first, ruleCall, token, stems>>

NoRuleCall == [made |-> FALSE, score |-> 0, out |-> NoResult]

\* The texts of at most n lines drawn from lines.
TextsUpTo(lines, n) == UNION {[1..k -> lines] : k \in 0..n}

Init ==
    /\ page = "loading"
    /\ xhr = "unsent"
    /\ server \in Servers
    /\ model = Null
    /\ assigns = 0
    /\ input = <<>>
    /\ call = NoCall
    /\ first = NoCall
    /\ ruleCall = NoRuleCall
    /\ token = <<>>
    /\ stems = <<>>

\* init(): loadModel() opens and sends the request; the click listener is
\* attached.
DomInit ==
    /\ page = "loading"
    /\ page' = "ready"
    /\ xhr' = "pending"
    /\ UNCHANGED <<server, model, assigns, input, call, first, ruleCall, token, stems>>

\* xhr.onload: model is assigned when the status is 2xx and the body parses.
XhrOnload ==
    /\ xhr = "pending"
    /\ server.reachable
    /\ xhr' = "loaded"
    /\ IF StatusOk(server.status) /\ JSONparse(server.body).ok
       THEN /\ model' = JSONparse(server.body).value
            /\ assigns' = assigns + 1
       ELSE UNCHANGED <<model, assigns>>
    /\ UNCHANGED <<page, server, input, call, first, ruleCall, token, stems>>

\* xhr.onerror: nothing is done.
XhrOnerror ==
    /\ xhr = "pending"
    /\ ~server.reachable
    /\ xhr' = "failed"
    /\ UNCHANGED <<page, server, model, assigns, input, call, first, ruleCall, token, stems>>

\* The user adds a line to the text field.
TypeLine ==
    /\ page = "ready"
    /\ Len(input) < MaxLines
    /\ \E line \in SessionLines : input' = Append(input, line)
    /\ call' = NoCall
    /\ UNCHANGED <<page, xhr, server, model, assigns, first, ruleCall, token, stems>>

\* The user empties the text field.
ClearInput ==
    /\ page = "ready"
    /\ input # <<>>
    /\ input' = <<>>
    /\ call' = NoCall
    /\ UNCHANGED <<page, xhr, server, model, assigns, first, ruleCall, token, stems>>

\* analyzeEmail(emailText) runs to its end before any other handler does.
\* The RegExp objects of the call before it are those of call.
AnalyzeEmail(emailText, nth) ==
    /\ page = "ready"
    /\ call' = [analyzeEmail(emailText, model, call.lastIndex) EXCEPT !.nth = nth]
    /\ UNCHANGED <<page, xhr, server, model, assigns, input, ruleCall, token, stems>>

\* analyzeEmail on the text in the field.
AnalyzeInput ==
    /\ AnalyzeEmail(input, 1)
    /\ UNCHANGED first

Next ==
    \/ DomInit
    \/ XhrOnload
    \/ XhrOnerror
    \/ TypeLine
    \/ ClearInput
    \/ AnalyzeInput

Spec == Init /\ [][Next]_vars

\* ---------------------------------------------- repeated analyses ---
IdemServers == {Response(200, GoodBody), Unreachable}

IdemInit ==
    /\ page = "loading"
    /\ xhr = "unsent"
    /\ server \in IdemServers
    /\ model = Null
    /\ assigns = 0
    /\ input = <<>>
    /\ call = NoCall
    /\ first = NoCall
    /\ ruleCall = NoRuleCall
    /\ token = <<>>
    /\ stems = <<>>

\* analyzeEmail on any text; first keeps the first call made since model
\* last changed.
AnalyzeText ==
    /\ \E text \in TextsUpTo(IdemLines, MaxIdemLines) :
          AnalyzeEmail(text, IF call.nth < MaxCounted THEN call.nth + 1 ELSE MaxCounted)
    /\ first' = IF first.made /\ first.model = model THEN first ELSE call'

IdemNext ==
    \/ DomInit
    \/ XhrOnload
    \/ XhrOnerror
    \/ AnalyzeText

SpecIdem == IdemInit /\ [][IdemNext]_vars

\* --------------------------------------------- the Rule Engine alone ---
\* The basis lines whose index is in S, in order, each k times.
RECURSIVE LinesOf(_, _, _)
LinesOf(S, i, k) ==
    IF i > Len(BasisLines) THEN <<>>
    ELSE (IF i \in S THEN [j \in 1..k |-> BasisLines[i]] ELSE <<>>) \o LinesOf(S, i + 1, k)

\* A neutral line, then every combination of basis lines once, and the
\* combinations of at most MaxRecurring lines with every line recurring.
RuleTexts ==
    {<<NeutralLine>> \o LinesOf(S, 1, 1) : S \in SUBSET (1..Len(BasisLines))}
        \cup {<<NeutralLine>> \o LinesOf(S, 1, k) :
                S \in {T \in SUBSET (1..Len(BasisLines)) : Cardinality(T) <= MaxRecurring},
                k \in 2..MaxRepeat}

RulesInit ==
    /\ page = "ready"
    /\ xhr = "failed"
    /\ server = Unreachable
    /\ model = Null
    /\ assigns = 0
    /\ input \in RuleTexts
    /\ call = NoCall
    /\ first = NoCall
    /\ ruleCall = NoRuleCall
    /\ token = <<>>
    /\ stems = <<>>

\* analyzeWithRules(text) on the input.
RunRules ==
    /\ ~ruleCall.made
    /\ LET rules == analyzeWithRules(input, NoneHeld)
       IN  ruleCall' = [made |-> TRUE, score |-> rules.score, out |-> rules.out]
    /\ UNCHANGED <<page, xhr, server, model, assigns, input, call, first, token, stems>>

SpecRules == RulesInit /\ [][RunRules]_vars

\* ------------------------------------------------- the stemmer alone ---
StemSpecInit ==
    /\ StemInit
    /\ page = "ready"
    /\ xhr = "failed"
    /\ server = Unreachable
    /\ model = Null
    /\ assigns = 0
    /\ input = <<>>
    /\ call = NoCall
    /\ first = NoCall
    /\ ruleCall = NoRuleCall

StemNext ==
    /\ StemCall
    /\ UNCHANGED <<page, xhr, server, model, assigns, input, call, first, ruleCall>>

SpecStem == StemSpecInit /\ [][StemNext]_vars

\* ------------------------------------------------------------- claims ---
\* The text a call of analyzeEmail worked on.
CallText == trim(call.emailText)

\* Whether a line of the text is matched by a regex, on the lower-cased
\* text or on the text as written.
SomeLine(re, text) == \E k \in DOMAIN text : LowerLine(text[k]) \in Matches(re)

SomeLineAsWritten(re, text) == \E k \in DOMAIN text : text[k] \in Matches(re)

GoldPresent(text) == SomeLineAsWritten("EXE", text) \/ SomeLine("goldPhrases", text)

LegitPresent(text) ==
    \/ SomeLine("strongLegit", text)
    \/ SomeLine("legitPhrase", text) /\ SomeLineAsWritten("canonicalDomain", text)

\* C1: no text holding a reference to one of the extensions the Rule Engine
\* scores as suspicious (a line BAD_EXT matches) has its scorer's result
\* replaced by the override result, whatever the model.
GoldSignalVeto ==
    (call.made /\ SomeLine("BAD_EXT", call.emailText)) => call.result # OverrideResult

\* A model of the documented shape: vocab an array of strings, coef an array
\* of numbers of the same length, intercept a number.
WellFormed(m) ==
    /\ m.t = "object"
    /\ {"vocab", "coef", "intercept"} \subseteq DOMAIN m.fields
    /\ m.fields.vocab.t = "array"
    /\ \A i \in DOMAIN m.fields.vocab.items : m.fields.vocab.items[i].t = "string"
    /\ m.fields.coef.t = "array"
    /\ \A i \in DOMAIN m.fields.coef.items : m.fields.coef.items[i].t = "number"
    /\ Len(m.fields.coef.items) = Len(m.fields.vocab.items)
    /\ m.fields.intercept.t = "number"

\* C2: every call of analyzeEmail returns a result (none throws), and with
\* an absent or malformed model the Model Scorer declines and the result is
\* the Rule Engine's.
NoExceptionReachesCaller ==
    call.made =>
        /\ call.ret = "returned"
        /\ call.result.prediction \in {"Phishing", "Safe"}
        /\ (CallText # <<>> /\ ~WellFormed(call.model)) => call.scorer = "rules"

\* C3: when a scorer's result was chosen, the result returned is the
\* override result if and only if the chosen prediction is Phishing, the
\* legitimacy discriminators are present and the gold signals are absent;
\* otherwise, and always when the chosen prediction is Safe, it is the
\* chosen result in all three fields.
OverrideCharacterization ==
    (call.made /\ call.scorer # "none") =>
        /\ call.result = OverrideResult <=>
              /\ call.chosen.prediction = "Phishing"
              /\ LegitPresent(CallText)
              /\ ~GoldPresent(CallText)
        /\ call.result # OverrideResult => call.result = call.chosen
        /\ call.chosen.prediction = "Safe" => call.result = call.chosen

\* C3 witness: a Phishing result was replaced by the override result.
OverrideFired ==
    /\ call.made
    /\ call.chosen.prediction = "Phishing"
    /\ call.result = OverrideResult

\* The request was answered with a 2xx status and a body that parses.
FetchSucceeded ==
    /\ xhr = "loaded"
    /\ server.status \in 200..299
    /\ JSONparse(server.body).ok

\* C4: a call made while model is absent returns, reads no property of
\* model and is served by the Rule Engine, whatever the state of the fetch;
\* a call served by the Model Scorer was made after the fetch succeeded.
NonBlockingFallback ==
    call.made =>
        /\ call.model = Null =>
              /\ call.ret = "returned"
              /\ call.read = {}
              /\ call.scorer # "model"
              /\ CallText # <<>> => call.scorer = "rules"
        /\ call.scorer = "model" => FetchSucceeded /\ call.model = model

\* C4 witness: a call was served by the Rule Engine while the fetch was
\* still pending.
ServedWhilePending ==
    /\ xhr = "pending"
    /\ call.made
    /\ call.scorer = "rules"
    /\ call.read = {}

\* C5: model is assigned at most once, and only by onload with a 2xx status
\* and a body that parses; after a failed fetch or parse it stays absent, the
\* request is never sent again, and no call of analyzeEmail changes model.
ModelLifecycle ==
    /\ [](/\ assigns <= 1
          /\ assigns = 0 => model = Null
          /\ (xhr \in {"loaded", "failed"} /\ ~FetchSucceeded) => (assigns = 0 /\ model = Null))
    /\ [][/\ (model' # model \/ assigns' # assigns) =>
                /\ xhr = "pending" /\ xhr' = "loaded"
                /\ assigns = 0 /\ assigns' = 1
                /\ server.status \in 200..299
                /\ JSONparse(server.body).ok
                /\ model' = JSONparse(server.body).value
                /\ call' = call
          /\ xhr \in {"loaded", "failed"} => xhr' = xhr
          /\ call' # call => model' = model]_vars

\* C5 witness: the model was assigned and a call has been made since.
AssignedAndUsed ==
    /\ assigns = 1
    /\ model # Null
    /\ call.made
    /\ call.scorer = "model"

\* C6: every call of analyzeEmail returns a prediction that is Phishing or
\* Safe and a confidence within [0, 1], whatever the text and the model.
ResultInRange ==
    call.made =>
        /\ call.ret = "returned"
        /\ call.result.prediction \in {"Phishing", "Safe"}
        /\ call.result.confidence \in 0..100

\* C7: the Rule Engine predicts Phishing for a score of 52 or more with the
\* score as confidence, and Safe for 51 or less with 100 less the score.
RuleBoundary ==
    ruleCall.made =>
        /\ ruleCall.score \in 0..100
        /\ ruleCall.score >= 52 =>
              ruleCall.out.prediction = "Phishing" /\ ruleCall.out.confidence = ruleCall.score
        /\ ruleCall.score <= 51 =>
              ruleCall.out.prediction = "Safe" /\ ruleCall.out.confidence = 100 - ruleCall.score

\* C7 witness: a text scored exactly 52.
ScoredAtBoundary ==
    /\ ruleCall.made
    /\ ruleCall.score = 52
    /\ ruleCall.out.prediction = "Phishing"

\* C8: a call of analyzeEmail on the text of an earlier call, under the same
\* model, returns what the earlier call returned, whatever was analysed in
\* between.
Idempotent ==
    (/\ call.made /\ first.made
     /\ call.emailText = first.emailText
     /\ call.model = first.model) =>
        /\ call.ret = first.ret
        /\ call.result = first.result

\* C8 witness: a text was analysed again, by a later call than the first.
AnalysedAgain ==
    /\ first.made /\ call.made
    /\ call.nth > first.nth
    /\ call.emailText = first.emailText
    /\ call.emailText # <<>>
    /\ call.model = first.model

\* Whether a group's signal is in the text, read off the pattern tables.
Present(g, text) ==
    CASE g.re = "BAD_EXT" -> SomeLine("BAD_EXT", text) \/ SomeLineAsWritten("EXE", text)
      [] g.re = "LINK_PATTERN" -> CountLinks(text) > 3
      [] g.on = "lower" -> SomeLine(g.re, text)
      [] OTHER -> SomeLineAsWritten(g.re, text)

RECURSIVE SumOver(_, _)
SumOver(f, S) ==
    IF S = {} THEN 0
    ELSE LET x == CHOOSE y \in S : TRUE IN f[x] + SumOver(f, S \ {x})

\* The sum of the weights of the groups of a catalog present in the text.
WeightPresent(groups, text) ==
    SumOver([i \in DOMAIN groups |-> groups[i].weight],
            {i \in DOMAIN groups : Present(groups[i], text)})

\* C9: the score is the sum of the weights of the phishing groups present,
\* each once, less the deductions present, floored at 0 and then capped at
\* 100; the sum is over a set, so no order of the groups enters it.
ScoreFormula ==
    ruleCall.made =>
        LET raw == WeightPresent(PhishingGroups, input) - WeightPresent(LegitGroups, input)
            floored == IF raw < 0 THEN 0 ELSE raw
        IN  ruleCall.score = IF floored > 100 THEN 100 ELSE floored

\* C9 witness: a text in which lines recur and a deduction applies.
ScoredWithRecurrence ==
    /\ ruleCall.made
    /\ Len(input) > Cardinality(Range(input))
    /\ WeightPresent(LegitGroups, input) > 0
    /\ ruleCall.score > 0

\* The phishing signal groups present in the text.
PhishingGroupsPresent(text) ==
    {i \in DOMAIN PhishingGroups : Present(PhishingGroups[i], text)}

\* C11: no single phishing signal group gives a Phishing verdict: whenever
\* the Rule Engine predicts Phishing, at least two distinct phishing groups
\* are present in the text and at least two reasons are reported.
NoSingleGroupPhishing ==
    (ruleCall.made /\ ruleCall.out.prediction = "Phishing") =>
        /\ Cardinality(PhishingGroupsPresent(input)) >= 2
        /\ Len(ruleCall.out.explanation.reasons) >= 2

\* C11 witness: a Phishing verdict from exactly two groups.
PhishingFromTwoGroups ==
    /\ ruleCall.made
    /\ ruleCall.out.prediction = "Phishing"
    /\ Cardinality(PhishingGroupsPresent(input)) = 2

\* Whether a word ends in a suffix stem strips.
HasSuffix(w) == \E suffix \in Suffixes : EndsWith(w, suffix)

\* C10 as claimed: a token shorter than 4 characters is unchanged, a second
\* call of stem changes nothing, and a call strips at most one suffix.
StemIdempotent ==
    /\ (stems # <<>> /\ Len(token) < 4) => stems[1] = token
    /\ stems # <<>> => (stems[1] = token \/ \E suffix \in Suffixes : token = stems[1] \o suffix)
    /\ \A i \in 2..Len(stems) : stems[i] = stems[i - 1]

\* C10 as amended: a second call of stem changes nothing when the first
\* returned a word of at most 4 characters or one with none of the suffixes.
StemIdempotentOnStems ==
    /\ (stems # <<>> /\ Len(token) < 4) => stems[1] = token
    /\ stems # <<>> => (stems[1] = token \/ \E suffix \in Suffixes : token = stems[1] \o suffix)
    /\ \A i \in 2..Len(stems) :
          (Len(stems[i - 1]) <= 4 \/ ~HasSuffix(stems[i - 1])) => stems[i] = stems[i - 1]

\* C10 witness: a suffix was stripped and the second call changed nothing.
StemmedTwice ==
    /\ Len(stems) >= 2
    /\ stems[1] # token
    /\ stems[2] = stems[1]

=============================================================================
